---- MODULE Spec2Model ----
(***************************************************************************)
(* Model of the flood-dataset pipeline:                                    *)
(*   - fuse_datasets      (gee_pipeline.py): daily S2/S1 fusion            *)
(*   - download_patches   (gee_pipeline.py): tile export and band split    *)
(*   - resize_images      (scripts/resize_s1_labels.py) and its CLI        *)
(*   - run_pipeline       (scripts/pipeline_orchestrator.py) and its CLI   *)
(* Each behaviour runs one of the four entry points; `pc` is the position  *)
(* in the running entry point.                                             *)
(***************************************************************************)
EXTENDS Integers, Sequences, FiniteSets, TLC

VARIABLES
    pc,
    \* ---- fuse_datasets
    s2_collection,   \* timestamps (ms) of the S2 observations passed in
    s1_collection,   \* timestamps (ms) of the S1 observations passed in
    start_date,      \* ee.Date(start_date).millis()
    end_date,        \* ee.Date(end_date).millis()
    mapped,          \* days.map(process_day), built one day at a time
    daily_fused,     \* the returned collection (a sequence of images)
    \* ---- download_patches
    image,           \* the image handed to download_patches
    overwrite,       \* the overwrite argument
    temp_tiles,      \* temp_tiles/tile_<i>.tif, by cell index i
    temp0,           \* temp_tiles as it was when the run started
    dl_i,            \* the loop variable i of the export loop
    attempts,        \* calls of geemap.download_ee_image, by cell index
    failed,          \* cells whose export raised
    tiles,           \* the listed tile files not yet split
    s2_dir,          \* <output_dir>/S2, by tile
    s1_dir,          \* <output_dir>/S1, by tile
    label_dir,       \* <output_dir>/labels, by tile
    split_seen,      \* tiles the split loop has run its body for
    split_err,       \* the tile whose split raised, or NoTile
    image_id,        \* which fused image (1, 2, ...) the running call exports
    tile_image,      \* the fused image whose data each tile file holds
    pair_log,        \* what the export loop did for each (image, cell) pair
    \* ---- resize_s1_labels.py
    args_s1,         \* --s1_dir and --s1_out were given
    args_label,      \* --label_dir and --label_out were given
    ref_dir,         \* target_ref_dir: the reference files, in os.listdir order
    source_dir,      \* source_dir of the running resize_images call
    output_dir,      \* output_dir of the running resize_images call
    source_kind,     \* which directory the running call was given: "s1" or "label"
    is_label,        \* the is_label argument of the running call
    rs_i,            \* position in ref_files of the next file
    rs_log,          \* what happened to each reference file
    rs_method,       \* the resampling method used for each file written
    \* ---- pipeline_orchestrator.py
    dirs,            \* which of <dataset_dir>/S2, /S1, /labels exist
    or_reported,     \* the missing-input error was printed
    or_steps,        \* the subprocess commands started so far
    or_completed,    \* "Pipeline Completed" was printed
    or_exit          \* the exit status of the process, or NoExit

fuseVars == <<s2_collection, s1_collection, start_date, end_date, mapped, daily_fused>>
dlVars == <<image, overwrite, temp_tiles, temp0, dl_i, attempts, failed, tiles,
            s2_dir, s1_dir, label_dir, split_seen, split_err,
            image_id, tile_image, pair_log>>
rsVars == <<args_s1, args_label, ref_dir, source_dir, output_dir, source_kind,
            is_label, rs_i, rs_log, rs_method>>
orVars == <<dirs, or_reported, or_steps, or_completed, or_exit>>
vars == <<pc, fuseVars, dlVars, rsVars, orVars>>

(***************************************************************************)
(* Bounds                                                                  *)
(***************************************************************************)
NumDays == 3
MaxCells == 2
MaxRefFiles == 2
MaxImages == 2

(***************************************************************************)
(* fuse_datasets                                                           *)
(***************************************************************************)
MillisPerDay == 24 * 60 * 60 * 1000

\* value of a property an image does not carry
NoProperty == 0 - 1

S2_BANDS == <<"S2_B2", "S2_B3", "S2_B4", "S2_B8", "S2_B11", "S2_NDWI", "S2_MNDWI">>
S1_BANDS == <<"S1_VV", "S1_VH", "S1_VV_VH_ratio">>

\* ee.List.sequence(start, end, step): start, start+step, ... while <= end
ListSequence(start, end, step) ==
    IF end < start THEN << >>
    ELSE [k \in 1..((end - start) \div step + 1) |-> start + (k - 1) * step]

days == ListSequence(start_date, end_date, MillisPerDay)

\* date.advance(1, 'day')
advance1day(date) == date + MillisPerDay

\* collection.filterDate(lo, hi): lo inclusive, hi exclusive
filterDate(coll, lo, hi) == {t \in coll : lo <= t /\ t < hi}

\* date.format('YYYY-MM-dd'), as the number of the UTC calendar day
formatDate(date) == date \div MillisPerDay

\* ee.Image(): one fully masked band named 'constant', no system:time_start
\* and no date property
EmptyImage == [time_start |-> NoProperty, date |-> NoProperty, bands |-> <<"constant">>]

\* a slip: .min() (both empty) where the code has .max() (either empty)
EitherEmpty_BothEmpty(s2_daily, s1_daily) ==
    (Cardinality(s2_daily) = 0) /\ (Cardinality(s1_daily) = 0)

\* the condition of the ee.Algorithms.If of process_day:
\* s2_daily.size().eq(0).max(s1_daily.size().eq(0))
EitherEmpty(s2_daily, s1_daily) ==
    (Cardinality(s2_daily) = 0) \/ (Cardinality(s1_daily) = 0)

process_day(day_millis) ==
    LET date == day_millis
        s2_daily == filterDate(s2_collection, date, advance1day(date))
        s1_daily == filterDate(s1_collection, date, advance1day(date))
    IN  IF EitherEmpty(s2_daily, s1_daily)
        THEN EmptyImage
        ELSE [time_start |-> date,
              date       |-> formatDate(date),
              bands      |-> S2_BANDS \o S1_BANDS]

\* a slip: the filter keeps every image
notNull_KeepAll(img) == TRUE

\* ee.Filter.notNull(['system:time_start'])
notNull(img) == img.time_start # NoProperty

\* collection.filter(f): keeps the order of the images kept
RECURSIVE FilterSeq(_)
FilterSeq(s) ==
    IF s = << >> THEN << >>
    ELSE IF notNull(Head(s)) THEN <<Head(s)>> \o FilterSeq(Tail(s))
         ELSE FilterSeq(Tail(s))

\* inputs: observation timestamps at the edges of each day for S2, at noon for S1
S2Times == {d * MillisPerDay + o : d \in 0..(NumDays - 1), o \in {0, MillisPerDay - 1}}
S1Times == {d * MillisPerDay + (MillisPerDay \div 2) : d \in 0..(NumDays - 1)}
StartDates == {0, MillisPerDay \div 2, MillisPerDay}
EndDates == {d * MillisPerDay : d \in 0..(NumDays - 1)}

FuseIdle ==
    /\ s2_collection = {} /\ s1_collection = {}
    /\ start_date = 0 /\ end_date = 0
    /\ mapped = << >> /\ daily_fused = << >>

\* one element of days.map(process_day)
MapDay ==
    /\ pc = "fuse_map"
    /\ Len(mapped) < Len(days)
    /\ mapped' = Append(mapped, process_day(days[Len(mapped) + 1]))
    /\ UNCHANGED <<pc, s2_collection, s1_collection, start_date, end_date, daily_fused>>
    /\ UNCHANGED dlVars
    /\ UNCHANGED rsVars
    /\ UNCHANGED orVars

\* ee.ImageCollection.fromImages(...).filter(notNull) and the return
FilterFused ==
    /\ pc = "fuse_map"
    /\ Len(mapped) = Len(days)
    /\ daily_fused' = FilterSeq(mapped)
    /\ pc' = "fuse_done"
    /\ UNCHANGED <<s2_collection, s1_collection, start_date, end_date, mapped>>
    /\ UNCHANGED dlVars
    /\ UNCHANGED rsVars
    /\ UNCHANGED orVars

(***************************************************************************)
(* download_patches: raster files                                          *)
(***************************************************************************)
\* A raster file is its profile (count, dtype, nodata) and its band data, one
\* representative pixel value per band: an integral value, or NegInf, the
\* float value -inf that marks a masked pixel of a float32 export.  kind: "none" no file at that path,
\* "corrupt" a file rasterio cannot open, "empty" a file created by
\* rasterio.open(path, 'w') whose bands were never written, "raster" a
\* readable file.
NoFile == [kind |-> "none", count |-> 0, dtype |-> "", nodata |-> "", data |-> << >>]
CorruptFile == [kind |-> "corrupt", count |-> 0, dtype |-> "", nodata |-> "", data |-> << >>]

Raster(count, dtype, nodata, data) ==
    [kind |-> "raster", count |-> count, dtype |-> dtype, nodata |-> nodata, data |-> data]

exists(f) == f.kind # "none"

\* the float value -inf, below every value a band can hold
NegInf == 0 - 1000000

\* the band values of an n-band image whose 11th band (the label) holds lab
BandData(n, lab) == [b \in 1..n |-> IF b = 11 THEN lab ELSE 10 + b]

IsFloat(dtype) == dtype \in {"float32", "float64"}

\* What casting one pixel value of an array of type dtype to uint8 can give.
\* An integer value wraps modulo 2^8.  A float value in 0..255 is kept.  For
\* any other float value the C cast numpy performs is undefined: a build
\* either wraps the value converted to a machine integer (-inf converts to
\* the minimum integer, whose low byte is 0) or saturates it to 0..255.
CastOutcomes(v, dtype) ==
    IF ~IsFloat(dtype) THEN {v % 256}
    ELSE IF v \in 0..255 THEN {v}
    ELSE IF v = NegInf THEN {0}
    ELSE {v % 256, IF v < 0 THEN 0 ELSE 255}

\* arr.astype(rasterio.uint8): the arrays the cast can give for band data of
\* type dtype
RECURSIVE astype_uint8(_, _)
astype_uint8(data, dtype) ==
    IF data = << >> THEN {<< >>}
    ELSE {<<x>> \o rest : x \in CastOutcomes(Head(data), dtype),
                          rest \in astype_uint8(Tail(data), dtype)}

\* profile.update(count=n)
UpdateCount(profile, n) == [profile EXCEPT !.count = n]

\* profile.update(count=1, dtype=rasterio.uint8, nodata=None)
UpdateLabelProfile(profile) ==
    [profile EXCEPT !.count = 1, !.dtype = "uint8", !.nodata = "None"]

\* dst.write(arr) raises ValueError unless arr has one band per band of dst
WriteRaises(profile, data) == Len(data) # profile.count

\* with rasterio.open(path, 'w', **profile) as dst: dst.write(data)
\* the file is created on open; a failed write leaves it without band data
WriteResult(profile, data) ==
    IF WriteRaises(profile, data)
    THEN [kind |-> "empty", count |-> profile.count, dtype |-> profile.dtype,
          nodata |-> profile.nodata, data |-> << >>]
    ELSE Raster(profile.count, profile.dtype, profile.nodata, data)

(***************************************************************************)
(* download_patches: export loop                                           *)
(***************************************************************************)
\* count = grid.size().getInfo(), the size of the fishnet grid, bounded here by
\* MaxCells; cells are numbered 0 .. count-1
count == MaxCells
Cells == 0..(count - 1)
NoTile == 0 - 1

\* a slip: the existence test is dropped
ShouldSkip_Never(ow, present) == FALSE

\* if not overwrite and os.path.exists(fname): continue
ShouldSkip(ow, present) == (~ow) /\ present

\* a slip: the exception of a failed export is not caught
OnExportError_Propagate(i) == [pc |-> "dl_raised", i |-> i]

\* except Exception as e: print(...); continue
OnExportError(i) == [pc |-> "dl_loop", i |-> i + 1]

\* the file geemap.download_ee_image writes for the image
ExportedTile(img) == Raster(img.count, img.dtype, img.nodata, img.data)

\* inputs: the images exported are float32 with -inf for masked pixels; the
\* label band S2_MNDWI.gt(threshold) holds 0 (no flood), 1 (flood) or -inf (a
\* pixel masked in the fused image)
LabelValues == {0, 1, NegInf}
Images ==
    {[count |-> n, dtype |-> "float32", nodata |-> "-inf", data |-> BandData(n, lab)]
        : n \in {6, 9, 10, 11, 12}, lab \in LabelValues}
InitialTiles ==
    {NoFile, CorruptFile,
     Raster(11, "int16", "-32768", BandData(11, 0)),
     Raster(11, "int16", "-32768", BandData(11, 257))}

EmptyDir == [c \in Cells |-> NoFile]

\* the fused images handed to download_patches one after another
ImageIds == 1..MaxImages
NoImage == 0
NoPairs == [p \in ImageIds \X Cells |-> "none"]

DlIdle ==
    /\ image = [count |-> 0, dtype |-> "", nodata |-> "", data |-> << >>]
    /\ overwrite = FALSE
    /\ temp_tiles = EmptyDir /\ temp0 = EmptyDir
    /\ dl_i = 0
    /\ attempts = [c \in Cells |-> 0]
    /\ failed = {}
    /\ tiles = {}
    /\ s2_dir = EmptyDir /\ s1_dir = EmptyDir /\ label_dir = EmptyDir
    /\ split_seen = {}
    /\ split_err = NoTile
    /\ image_id = 0
    /\ tile_image = [c \in Cells |-> NoImage]
    /\ pair_log = NoPairs

\* the resume branch of one iteration: the tile exists, skip it
DlSkip ==
    /\ pc = "dl_loop"
    /\ dl_i < count
    /\ ShouldSkip(overwrite, exists(temp_tiles[dl_i]))
    /\ dl_i' = dl_i + 1
    /\ pair_log' = [pair_log EXCEPT ![<<image_id, dl_i>>] = "skipped"]
    /\ UNCHANGED <<pc, image, overwrite, temp_tiles, temp0, attempts, failed, tiles,
                   s2_dir, s1_dir, label_dir, split_seen, split_err,
                   image_id, tile_image>>
    /\ UNCHANGED fuseVars
    /\ UNCHANGED rsVars
    /\ UNCHANGED orVars

\* one iteration whose geemap.download_ee_image call returns
DlExportOk ==
    /\ pc = "dl_loop"
    /\ dl_i < count
    /\ ~ShouldSkip(overwrite, exists(temp_tiles[dl_i]))
    /\ attempts' = [attempts EXCEPT ![dl_i] = @ + 1]
    /\ temp_tiles' = [temp_tiles EXCEPT ![dl_i] = ExportedTile(image)]
    /\ dl_i' = dl_i + 1
    /\ tile_image' = [tile_image EXCEPT ![dl_i] = image_id]
    /\ pair_log' = [pair_log EXCEPT ![<<image_id, dl_i>>] = "exported"]
    /\ UNCHANGED <<pc, image, overwrite, temp0, failed, tiles,
                   s2_dir, s1_dir, label_dir, split_seen, split_err, image_id>>
    /\ UNCHANGED fuseVars
    /\ UNCHANGED rsVars
    /\ UNCHANGED orVars

\* one iteration whose geemap.download_ee_image call raises; the call may
\* leave the target path as it was or leave a partly written file there
DlExportFail ==
    /\ pc = "dl_loop"
    /\ dl_i < count
    /\ ~ShouldSkip(overwrite, exists(temp_tiles[dl_i]))
    /\ attempts' = [attempts EXCEPT ![dl_i] = @ + 1]
    /\ failed' = failed \cup {dl_i}
    /\ \E left \in {temp_tiles[dl_i], CorruptFile} :
          /\ temp_tiles' = [temp_tiles EXCEPT ![dl_i] = left]
          /\ tile_image' = IF left = temp_tiles[dl_i] THEN tile_image
                            ELSE [tile_image EXCEPT ![dl_i] = image_id]
    /\ pair_log' = [pair_log EXCEPT ![<<image_id, dl_i>>] = "failed"]
    /\ pc' = OnExportError(dl_i).pc
    /\ dl_i' = OnExportError(dl_i).i
    /\ UNCHANGED <<image, overwrite, temp0, tiles,
                   s2_dir, s1_dir, label_dir, split_seen, split_err, image_id>>
    /\ UNCHANGED fuseVars
    /\ UNCHANGED rsVars
    /\ UNCHANGED orVars

\* tiles = [f for f in os.listdir(temp_dir) if f.endswith('.tif')]
DlListTiles ==
    /\ pc = "dl_loop"
    /\ dl_i = count
    /\ tiles' = {c \in Cells : exists(temp_tiles[c])}
    /\ pc' = "dl_split"
    /\ UNCHANGED <<image, overwrite, temp_tiles, temp0, dl_i, attempts, failed,
                   s2_dir, s1_dir, label_dir, split_seen, split_err,
                   image_id, tile_image, pair_log>>
    /\ UNCHANGED fuseVars
    /\ UNCHANGED rsVars
    /\ UNCHANGED orVars

(***************************************************************************)
(* download_patches: band split                                            *)
(***************************************************************************)
\* data[lo:hi, :, :] with 0-based lo (inclusive) and hi (exclusive), clamped to
\* the band axis as numpy does
Slice(data, lo, hi) ==
    LET top == IF hi < Len(data) THEN hi ELSE Len(data)
    IN  IF top <= lo THEN << >> ELSE [k \in 1..(top - lo) |-> data[lo + k]]

\* label_data = data[10:11, :, :]
LabelData(src) == Slice(src.data, 10, 11)

\* The body of `for filename in tiles` for the tile file src; old2, old1, oldl
\* are the files now at the three output paths and cast is what
\* label_data.astype(rasterio.uint8) gave.  The result gives the files at
\* those paths afterwards and whether the body raised.
SplitTileResult(src, old2, old1, oldl, cast) ==
    LET profile == [count |-> src.count, dtype |-> src.dtype, nodata |-> src.nodata]
        s2_data == Slice(src.data, 0, 7)
        p2 == UpdateCount(profile, 7)
        s1_data == Slice(src.data, 7, 10)
        p1 == UpdateCount(p2, 3)
        pl == UpdateLabelProfile(p1)
    IN  IF src.kind # "raster"
        THEN [s2 |-> old2, s1 |-> old1, label |-> oldl, raised |-> TRUE]
        ELSE IF WriteRaises(p2, s2_data)
        THEN [s2 |-> WriteResult(p2, s2_data), s1 |-> old1, label |-> oldl,
              raised |-> TRUE]
        ELSE IF WriteRaises(p1, s1_data)
        THEN [s2 |-> WriteResult(p2, s2_data), s1 |-> WriteResult(p1, s1_data),
              label |-> oldl, raised |-> TRUE]
        ELSE [s2 |-> WriteResult(p2, s2_data), s1 |-> WriteResult(p1, s1_data),
              label |-> WriteResult(pl, cast),
              raised |-> WriteRaises(pl, cast)]

\* one iteration of `for filename in tiles`, in the order os.listdir gave
\* (any order); an exception of the body leaves download_patches
SplitTile ==
    /\ pc = "dl_split"
    /\ \E f \in tiles :
        \E cast \in astype_uint8(LabelData(temp_tiles[f]), temp_tiles[f].dtype) :
          LET r == SplitTileResult(temp_tiles[f], s2_dir[f], s1_dir[f], label_dir[f],
                                   cast)
          IN  /\ s2_dir' = [s2_dir EXCEPT ![f] = r.s2]
              /\ s1_dir' = [s1_dir EXCEPT ![f] = r.s1]
              /\ label_dir' = [label_dir EXCEPT ![f] = r.label]
              /\ split_seen' = split_seen \cup {f}
              /\ tiles' = tiles \ {f}
              /\ pc' = IF r.raised THEN "dl_raised" ELSE "dl_split"
              /\ split_err' = IF r.raised THEN f ELSE split_err
    /\ UNCHANGED <<image, overwrite, temp_tiles, temp0, dl_i, attempts, failed,
                   image_id, tile_image, pair_log>>
    /\ UNCHANGED fuseVars
    /\ UNCHANGED rsVars
    /\ UNCHANGED orVars

\* the loop is over: print(f"Dataset generated in {output_dir}") and return
DlFinish ==
    /\ pc = "dl_split"
    /\ tiles = {}
    /\ pc' = "dl_done"
    /\ UNCHANGED dlVars
    /\ UNCHANGED fuseVars
    /\ UNCHANGED rsVars
    /\ UNCHANGED orVars

\* the caller hands the next fused image (same band layout, same mode) to
\* download_patches with the same output_dir: the directories are kept, the
\* export loop starts again at cell 0
DlNextImage ==
    /\ pc = "dl_done"
    /\ image_id < MaxImages
    /\ image_id' = image_id + 1
    /\ temp0' = temp_tiles
    /\ dl_i' = 0
    /\ attempts' = [c \in Cells |-> 0]
    /\ failed' = {}
    /\ tiles' = {}
    /\ split_seen' = {}
    /\ split_err' = NoTile
    /\ pc' = "dl_loop"
    /\ UNCHANGED <<image, overwrite, temp_tiles, s2_dir, s1_dir, label_dir,
                   tile_image, pair_log>>
    /\ UNCHANGED fuseVars
    /\ UNCHANGED rsVars
    /\ UNCHANGED orVars

(***************************************************************************)
(* Claims about download_patches                                           *)
(***************************************************************************)
ExportLoopOver == pc \in {"dl_split", "dl_done", "dl_raised"}

\* C2: in resume mode (overwrite = False) a run exports exactly the cells
\* whose tile file was missing at the start, exports none of the cells whose
\* file existed, and leaves the files that existed unchanged.
C2_ResumeCorrectness ==
    (pc \in {"dl_loop", "dl_split", "dl_done", "dl_raised"} /\ ~overwrite) =>
        /\ \A c \in Cells :
              temp0[c].kind # "none" => (attempts[c] = 0 /\ temp_tiles[c] = temp0[c])
        /\ ExportLoopOver =>
              \A c \in Cells : temp0[c].kind = "none" => attempts[c] = 1

\* a resumed run: one tile was there and is untouched, one was missing and
\* was exported
C2_Witness ==
    /\ ExportLoopOver
    /\ ~overwrite
    /\ \E c, d \in Cells :
          /\ temp0[c].kind = "raster" /\ attempts[c] = 0 /\ temp_tiles[c] = temp0[c]
          /\ temp0[d].kind = "none" /\ attempts[d] = 1 /\ temp_tiles[d].kind = "raster"

\* C3: every cell that resume does not skip gets exactly one export attempt,
\* whatever happened to the other cells; a failed export is not retried and
\* the loop goes on to the cells after it.
C3_FailureIsolation ==
    /\ \A c \in Cells : attempts[c] <= 1
    /\ \A c \in failed : attempts[c] = 1 /\ (pc = "dl_loop" => dl_i > c)
    /\ ExportLoopOver =>
          /\ dl_i = count
          /\ \A c \in Cells :
                attempts[c] = IF (~overwrite) /\ temp0[c].kind # "none" THEN 0 ELSE 1

\* the export of the first cell failed and a later cell was still exported
C3_Witness ==
    /\ ExportLoopOver
    /\ 0 \in failed
    /\ \E c \in Cells : c > 0 /\ c \notin failed /\ attempts[c] = 1
                        /\ temp_tiles[c].kind = "raster"

\* C4: a tile file that does not have exactly 11 bands makes the split step
\* raise for that tile, and no S2, S1 or label file is written from its bands.
C4_BandCountContract ==
    \A f \in split_seen :
        (temp_tiles[f].kind = "raster" /\ temp_tiles[f].count # 11) =>
            /\ split_err = f
            /\ s2_dir[f].kind # "raster"
            /\ s1_dir[f].kind # "raster"
            /\ label_dir[f].kind # "raster"

\* C5: for every 11-band tile file, the split step writes under the same
\* filename an S2 file with exactly 7 bands equal to source bands 1-7, an S1
\* file with exactly 3 bands equal to source bands 8-10 and a label file with
\* exactly 1 band equal to source band 11, in the source's band order and
\* with pixel values equal to the source's.  Stated of every 11-band tile
\* file the split loop has come to, and of every 11-band tile file of the
\* temporary directory once download_patches is over.
C5_LosslessSplit ==
    \A c \in Cells :
        (/\ temp_tiles[c].kind = "raster" /\ temp_tiles[c].count = 11
         /\ (c \in split_seen \/ pc \in {"dl_done", "dl_raised"})) =>
            /\ s2_dir[c].kind = "raster" /\ s2_dir[c].count = 7
            /\ s2_dir[c].data = [b \in 1..7 |-> temp_tiles[c].data[b]]
            /\ s1_dir[c].kind = "raster" /\ s1_dir[c].count = 3
            /\ s1_dir[c].data = [b \in 1..3 |-> temp_tiles[c].data[7 + b]]
            /\ label_dir[c].kind = "raster" /\ label_dir[c].count = 1
            /\ label_dir[c].data = <<temp_tiles[c].data[11]>>

\* C11: every (fused image, grid cell) pair handed to download_patches has its
\* own tile file: once a call is over, for every image handed so far and every
\* cell whose export did not fail, a tile file holds that image's data for
\* that cell; a later image's tile is neither skipped nor does it replace an
\* earlier image's tile.
C11_OneTilePerPair ==
    pc = "dl_done" =>
        \A k \in 1..image_id, c \in Cells :
            pair_log[<<k, c>>] # "failed" =>
                (exists(temp_tiles[c]) /\ tile_image[c] = k)

\* C12: a failure while splitting one tile file is fatal for that tile only:
\* when download_patches is over, every readable 11-band tile file of
\* temp_tiles has its S2, S1 and label files, whatever happened to the others.
C12_SplitIsolation ==
    pc \in {"dl_done", "dl_raised"} =>
        \A c \in Cells :
            (temp_tiles[c].kind = "raster" /\ temp_tiles[c].count = 11) =>
                /\ s2_dir[c].kind = "raster"
                /\ s1_dir[c].kind = "raster"
                /\ label_dir[c].kind = "raster"

(***************************************************************************)
(* resize_s1_labels.py: rasters on a grid                                  *)
(***************************************************************************)
\* A georeferenced raster file: its grid (height, width, transform, crs), its
\* band count and dtype, and the pixel rows of one band (every band is read
\* and resampled the same way).  kind as for the tile files above.
NoGeoFile ==
    [kind |-> "none", height |-> 0, width |-> 0, transform |-> << >>, crs |-> "",
     count |-> 0, dtype |-> "", data |-> << >>]
CorruptGeoFile == [NoGeoFile EXCEPT !.kind = "corrupt"]

\* the affine transform of an h x w grid over a square footprint of 40 units:
\* <<pixel width, pixel height, x of the left edge, y of the top edge>>
GridTransform(h, w) == <<40 \div w, 0 - (40 \div h), 0, 40>>

GeoRaster(h, w, crs, nbands, dtype, data) ==
    [kind |-> "raster", height |-> h, width |-> w, transform |-> GridTransform(h, w),
     crs |-> crs, count |-> nbands, dtype |-> dtype, data |-> data]

\* nearest neighbour: the source index (1-based) under the centre of target
\* index k, for a target axis of tn cells over a source axis of sn cells
NearestIndex(k, tn, sn) == ((2 * k - 1) * sn) \div (2 * tn) + 1

ResampleNearest(data, sh, sw, th, tw) ==
    [r \in 1..th |-> [c \in 1..tw |->
        data[NearestIndex(r, th, sh)][NearestIndex(c, tw, sw)]]]

\* bilinear: the two source cells around the centre of target index k and the
\* weight of the second, as a fraction of 2 * tn; indices clamp at the edges
Clamp(x, lo, hi) == IF x < lo THEN lo ELSE IF x > hi THEN hi ELSE x
BilinearLow(k, tn, sn) ==
    Clamp(((2 * k - 1) * sn - tn) \div (2 * tn) + 1, 1, sn)
BilinearHigh(k, tn, sn) ==
    Clamp(((2 * k - 1) * sn - tn) \div (2 * tn) + 2, 1, sn)
BilinearWeight(k, tn, sn) == ((2 * k - 1) * sn - tn) % (2 * tn)

ResampleBilinear(data, sh, sw, th, tw) ==
    [r \in 1..th |-> [c \in 1..tw |->
        LET r0 == BilinearLow(r, th, sh)
            r1 == BilinearHigh(r, th, sh)
            wr == BilinearWeight(r, th, sh)
            c0 == BilinearLow(c, tw, sw)
            c1 == BilinearHigh(c, tw, sw)
            wc == BilinearWeight(c, tw, sw)
            dr == 2 * th
            dc == 2 * tw
            sum == (dr - wr) * (dc - wc) * data[r0][c0]
                   + (dr - wr) * wc * data[r0][c1]
                   + wr * (dc - wc) * data[r1][c0]
                   + wr * wc * data[r1][c1]
        IN  (2 * sum + dr * dc) \div (2 * dr * dc)]]

\* src.read(out_shape=(src.count, target_height, target_width), resampling=m)
ReadResampled(src, th, tw, m) ==
    IF m = "nearest"
    THEN ResampleNearest(src.data, src.height, src.width, th, tw)
    ELSE ResampleBilinear(src.data, src.height, src.width, th, tw)

\* a slip: the methods are swapped
ResamplingMethod_Swapped(label) == IF label THEN "bilinear" ELSE "nearest"

\* resampling_method = Resampling.nearest if is_label else Resampling.bilinear
ResamplingMethod(label) == IF label THEN "nearest" ELSE "bilinear"

\* a slip: the transform and the CRS are left as the source's
UpdateGrid_KeepTransform(profile, h, w, t, crs) ==
    [profile EXCEPT !.height = h, !.width = w]

\* profile.update({'height': .., 'width': .., 'transform': .., 'crs': ..})
UpdateGrid(profile, h, w, t, crs) ==
    [profile EXCEPT !.height = h, !.width = w, !.transform = t, !.crs = crs]

\* the is_label argument the CLI passes for each directory
IsLabelArg(kind) == kind = "label"

(***************************************************************************)
(* resize_s1_labels.py: resize_images and the CLI                          *)
(***************************************************************************)
RefNames == 1..MaxRefFiles

\* inputs
RefFiles ==
    {CorruptGeoFile,
     GeoRaster(2, 2, "EPSG:4326", 4, "float32", <<<<0, 0>>, <<0, 0>>>>),
     GeoRaster(4, 4, "EPSG:4326", 4, "float32",
               <<<<0, 0, 0, 0>>, <<0, 0, 0, 0>>, <<0, 0, 0, 0>>, <<0, 0, 0, 0>>>>)}
SourceFiles(kind) ==
    LET n == IF kind = "label" THEN 1 ELSE 3
        t == IF kind = "label" THEN "uint8" ELSE "float32"
    IN  {NoGeoFile, CorruptGeoFile,
         GeoRaster(2, 2, "EPSG:4326", n, t, <<<<0, 4>>, <<4, 8>>>>),
         GeoRaster(1, 2, "EPSG:32633", n, t, <<<<1, 5>>>>)}

EmptyGeoDir == [f \in RefNames |-> NoGeoFile]

RsIdle ==
    /\ args_s1 = FALSE /\ args_label = FALSE
    /\ ref_dir = EmptyGeoDir /\ source_dir = EmptyGeoDir /\ output_dir = EmptyGeoDir
    /\ source_kind = "" /\ is_label = FALSE
    /\ rs_i = 0
    /\ rs_log = [f \in RefNames |-> "none"]
    /\ rs_method = [f \in RefNames |-> "none"]

\* resize_images(ref_dir, <dir>, <out>, is_label=...) is called for kind
RsCall(kind) ==
    /\ source_kind' = kind
    /\ is_label' = IsLabelArg(kind)
    /\ source_dir' \in [RefNames -> SourceFiles(kind)]
    /\ output_dir' = EmptyGeoDir
    /\ rs_i' = 1
    /\ rs_log' = [f \in RefNames |-> "none"]
    /\ rs_method' = [f \in RefNames |-> "none"]
    /\ pc' = "rs_loop"

\* if args.s1_dir and args.s1_out: resize_images(..., is_label=False)
RsCliS1 ==
    /\ pc = "rs_cli_s1"
    /\ IF args_s1
       THEN RsCall("s1")
       ELSE /\ pc' = "rs_cli_label"
            /\ UNCHANGED <<source_kind, is_label, source_dir, output_dir, rs_i,
                           rs_log, rs_method>>
    /\ UNCHANGED <<args_s1, args_label, ref_dir>>
    /\ UNCHANGED fuseVars
    /\ UNCHANGED dlVars
    /\ UNCHANGED orVars

\* if args.label_dir and args.label_out: resize_images(..., is_label=True)
RsCliLabel ==
    /\ pc = "rs_cli_label"
    /\ IF args_label
       THEN RsCall("label")
       ELSE /\ pc' = "rs_done"
            /\ UNCHANGED <<source_kind, is_label, source_dir, output_dir, rs_i,
                           rs_log, rs_method>>
    /\ UNCHANGED <<args_s1, args_label, ref_dir>>
    /\ UNCHANGED fuseVars
    /\ UNCHANGED dlVars
    /\ UNCHANGED orVars

RsInLoop == pc = "rs_loop" /\ rs_i <= MaxRefFiles

\* if not os.path.exists(src_path): print warning; continue
RsSkipMissing ==
    /\ RsInLoop
    /\ source_dir[rs_i].kind = "none"
    /\ rs_log' = [rs_log EXCEPT ![rs_i] = "skipped"]
    /\ rs_i' = rs_i + 1
    /\ UNCHANGED <<pc, args_s1, args_label, ref_dir, source_dir, output_dir,
                   source_kind, is_label, rs_method>>
    /\ UNCHANGED fuseVars
    /\ UNCHANGED dlVars
    /\ UNCHANGED orVars

\* with rasterio.open(ref_path) as ref: raises outside the try block when the
\* reference file cannot be opened; the exception leaves resize_images
RsOpenRefRaises ==
    /\ RsInLoop
    /\ source_dir[rs_i].kind # "none"
    /\ ref_dir[rs_i].kind # "raster"
    /\ pc' = "rs_raised"
    /\ UNCHANGED rsVars
    /\ UNCHANGED orVars
    /\ UNCHANGED fuseVars
    /\ UNCHANGED dlVars
    /\ UNCHANGED orVars

\* the try block runs to its end: the source is read resampled and written
\* with the updated profile
RsResize ==
    /\ RsInLoop
    /\ source_dir[rs_i].kind = "raster"
    /\ ref_dir[rs_i].kind = "raster"
    /\ LET ref == ref_dir[rs_i]
           src == source_dir[rs_i]
           m == ResamplingMethod(is_label)
           data == ReadResampled(src, ref.height, ref.width, m)
           profile == UpdateGrid(src, ref.height, ref.width, ref.transform, ref.crs)
       IN  /\ output_dir' = [output_dir EXCEPT ![rs_i] = [profile EXCEPT !.data = data]]
           /\ rs_method' = [rs_method EXCEPT ![rs_i] = m]
    /\ rs_log' = [rs_log EXCEPT ![rs_i] = "written"]
    /\ rs_i' = rs_i + 1
    /\ UNCHANGED <<pc, args_s1, args_label, ref_dir, source_dir, source_kind, is_label>>
    /\ UNCHANGED fuseVars
    /\ UNCHANGED dlVars
    /\ UNCHANGED orVars

\* the try block raises and the except clause logs it: the source cannot be
\* opened, or the write fails after rasterio.open(dst_path, 'w') created the
\* file with the updated profile
RsResizeError ==
    /\ RsInLoop
    /\ source_dir[rs_i].kind # "none"
    /\ ref_dir[rs_i].kind = "raster"
    /\ \/ /\ source_dir[rs_i].kind = "corrupt"
          /\ UNCHANGED output_dir
       \/ /\ source_dir[rs_i].kind = "raster"
          /\ LET ref == ref_dir[rs_i]
                 profile == UpdateGrid(source_dir[rs_i], ref.height, ref.width,
                                       ref.transform, ref.crs)
             IN  output_dir' = [output_dir EXCEPT
                                   ![rs_i] = [profile EXCEPT !.kind = "empty", !.data = << >>]]
    /\ rs_log' = [rs_log EXCEPT ![rs_i] = "error"]
    /\ rs_i' = rs_i + 1
    /\ UNCHANGED <<pc, args_s1, args_label, ref_dir, source_dir, source_kind, is_label,
                   rs_method>>
    /\ UNCHANGED fuseVars
    /\ UNCHANGED dlVars
    /\ UNCHANGED orVars

\* resize_images returns to the CLI
RsReturn ==
    /\ pc = "rs_loop"
    /\ rs_i > MaxRefFiles
    /\ pc' = IF source_kind = "s1" THEN "rs_cli_label" ELSE "rs_done"
    /\ UNCHANGED rsVars
    /\ UNCHANGED orVars
    /\ UNCHANGED fuseVars
    /\ UNCHANGED dlVars
    /\ UNCHANGED orVars

(***************************************************************************)
(* pipeline_orchestrator.py                                                *)
(***************************************************************************)
NoExit == 0 - 1

\* the exit status of a script that runs to its end or returns from its main
\* function: run_pipeline returns, the script ends
ExitAfterReturn == 0

\* the exit status when an exception (CalledProcessError of check=True)
\* reaches the top of the script
ExitAfterException == 1

\* the command of step 2, with the optional directory arguments
ResizeCommand(d) ==
    [script |-> "resize_s1_labels.py", s1 |-> d.S1, labels |-> d.labels]
SuperresCommand == [script |-> "apply_superres.py", s1 |-> FALSE, labels |-> FALSE]

OrIdle ==
    /\ dirs = [S2 |-> FALSE, S1 |-> FALSE, labels |-> FALSE]
    /\ or_reported = FALSE
    /\ or_steps = << >>
    /\ or_completed = FALSE
    /\ or_exit = NoExit

\* if not os.path.exists(s2_input): print(...); return, and the script ends
OrMissingInput ==
    /\ pc = "or_start"
    /\ ~dirs.S2
    /\ or_reported' = TRUE
    /\ or_exit' = ExitAfterReturn
    /\ pc' = "or_exited"
    /\ UNCHANGED <<dirs, or_steps, or_completed>>
    /\ UNCHANGED fuseVars
    /\ UNCHANGED dlVars
    /\ UNCHANGED rsVars

\* step 1 is started: subprocess.run([.. apply_superres.py ..], check=True)
OrStartSuperres ==
    /\ pc = "or_start"
    /\ dirs.S2
    /\ or_steps' = Append(or_steps, SuperresCommand)
    /\ pc' = "or_step1"
    /\ UNCHANGED <<dirs, or_reported, or_completed, or_exit>>
    /\ UNCHANGED fuseVars
    /\ UNCHANGED dlVars
    /\ UNCHANGED rsVars

\* step 1 ends with return code rc; on 0 step 2 is started
OrSuperresEnds ==
    /\ pc = "or_step1"
    /\ \E rc \in {0, 1} :
          IF rc # 0
          THEN /\ or_exit' = ExitAfterException
               /\ pc' = "or_exited"
               /\ UNCHANGED or_steps
          ELSE /\ or_steps' = Append(or_steps, ResizeCommand(dirs))
               /\ pc' = "or_step2"
               /\ UNCHANGED or_exit
    /\ UNCHANGED <<dirs, or_reported, or_completed>>
    /\ UNCHANGED fuseVars
    /\ UNCHANGED dlVars
    /\ UNCHANGED rsVars

\* step 2 ends with return code rc; on 0 the completion banner is printed
OrResizeEnds ==
    /\ pc = "or_step2"
    /\ \E rc \in {0, 1} :
          IF rc # 0
          THEN /\ or_exit' = ExitAfterException
               /\ UNCHANGED or_completed
          ELSE /\ or_exit' = ExitAfterReturn
               /\ or_completed' = TRUE
    /\ pc' = "or_exited"
    /\ UNCHANGED <<dirs, or_reported, or_steps>>
    /\ UNCHANGED fuseVars
    /\ UNCHANGED dlVars
    /\ UNCHANGED rsVars

(***************************************************************************)
(* Claims about resize_s1_labels.py and pipeline_orchestrator.py           *)
(***************************************************************************)
\* C6: every file written by resize_images has the height, width, transform
\* and CRS of the reference file of the same name, whatever the source's grid.
C6_AlignmentGeometry ==
    \A f \in RefNames :
        output_dir[f].kind # "none" =>
            /\ ref_dir[f].kind = "raster"
            /\ output_dir[f].height = ref_dir[f].height
            /\ output_dir[f].width = ref_dir[f].width
            /\ output_dir[f].transform = ref_dir[f].transform
            /\ output_dir[f].crs = ref_dir[f].crs
            /\ output_dir[f].kind = "raster" =>
                  /\ Len(output_dir[f].data) = ref_dir[f].height
                  /\ \A r \in 1..Len(output_dir[f].data) :
                        Len(output_dir[f].data[r]) = ref_dir[f].width

\* a 1x2 source in another CRS was written onto a 4x4 reference grid
C6_Witness ==
    \E f \in RefNames :
        /\ output_dir[f].kind = "raster"
        /\ source_dir[f].height = 1 /\ source_dir[f].width = 2
        /\ output_dir[f].height = 4 /\ output_dir[f].width = 4
        /\ source_dir[f].crs # output_dir[f].crs
        /\ source_dir[f].transform # output_dir[f].transform

RsCallOver ==
    /\ source_kind # ""
    /\ \/ pc \in {"rs_raised", "rs_done"}
       \/ pc = "rs_cli_label" /\ source_kind = "s1"

\* C7: a missing source file or a failure on one file (opening the reference,
\* reading or resampling the source, writing the output) is logged and
\* skipped, and every other reference file is still processed.
C7_BatchRobustness ==
    RsCallOver => \A f \in RefNames : rs_log[f] \in {"skipped", "error", "written"}

PixelValues(data) == {data[r][c] : r \in 1..Len(data), c \in 1..Len(data[1])}

\* C8: resize_images resamples with nearest neighbour exactly when it is given
\* label data and with bilinear otherwise, the CLI passes is_label=True for
\* the label directory and False for the S1 directory, and so every pixel
\* value of an aligned label file occurs in its source label file.
C8_ResamplingSelection ==
    source_kind # "" =>
        /\ is_label <=> (source_kind = "label")
        /\ \A f \in RefNames :
              rs_log[f] = "written" =>
                  /\ rs_method[f] = "nearest" <=> (source_kind = "label")
                  /\ rs_method[f] = "bilinear" <=> (source_kind = "s1")
                  /\ source_kind = "label" =>
                        PixelValues(output_dir[f].data) \subseteq PixelValues(source_dir[f].data)

\* a 2x2 label file was written onto a 4x4 grid and holds only source values
C8_Witness ==
    \E f \in RefNames :
        /\ source_kind = "label"
        /\ rs_log[f] = "written"
        /\ source_dir[f].height = 2
        /\ output_dir[f].height = 4
        /\ PixelValues(output_dir[f].data) = {0, 4, 8}

\* C9: when <dataset_dir>/S2 does not exist the failure is reported before any
\* step is started and the process exits with a non-zero status; the exit
\* status is zero only when the pipeline ran to completion.
C9_SetupFailureFatal ==
    pc = "or_exited" =>
        /\ ~dirs.S2 => (or_reported /\ or_steps = << >> /\ or_exit # 0)
        /\ or_exit = 0 => or_completed

(***************************************************************************)
(* Claims about fuse_datasets                                              *)
(***************************************************************************)
\* the days the claim speaks of: start_date, start_date + 1 day, ... up to end_date
EnumeratedDays ==
    {d \in {start_date + k * MillisPerDay : k \in 0..NumDays} : d <= end_date}

HasObservation(coll, d) == \E t \in coll : d <= t /\ t < d + MillisPerDay

FusedAt(d) ==
    \E j \in 1..Len(daily_fused) :
        /\ daily_fused[j].time_start = d
        /\ daily_fused[j].date = d \div MillisPerDay

\* C1: the returned collection holds a fused image dated d, for an enumerated
\* day d, if and only if both the S2 and the S1 collection have an observation
\* in [d, d + 1 day); the emitted dates are exactly that intersection.
C1_CoverageIntersection ==
    pc = "fuse_done" =>
        /\ \A d \in EnumeratedDays :
              FusedAt(d) <=> (HasObservation(s2_collection, d) /\ HasObservation(s1_collection, d))
        /\ {daily_fused[j].time_start : j \in 1..Len(daily_fused)}
              = {d \in EnumeratedDays :
                    HasObservation(s2_collection, d) /\ HasObservation(s1_collection, d)}

\* a run in which one day has both sensors and is emitted, and another day has
\* S1 only and is absent
C1_Witness ==
    /\ pc = "fuse_done"
    /\ \E d \in EnumeratedDays : FusedAt(d)
    /\ \E d \in EnumeratedDays :
          /\ ~HasObservation(s2_collection, d)
          /\ HasObservation(s1_collection, d)
          /\ ~FusedAt(d)

\* C10: the days are enumerated chronologically with a daily step over the
\* inclusive range; the returned collection is ordered by date, has no two
\* images of the same date, and holds no null or placeholder image.
C10_TerminalOutput ==
    pc = "fuse_done" =>
        /\ Len(mapped) = Cardinality(EnumeratedDays)
        /\ \A k \in 1..Len(days) :
              days[k] = start_date + (k - 1) * MillisPerDay /\ days[k] <= end_date
        /\ \A j \in 1..Len(daily_fused) :
              /\ daily_fused[j] # EmptyImage
              /\ daily_fused[j].time_start # NoProperty
              /\ daily_fused[j].date # NoProperty
              /\ "constant" \notin {daily_fused[j].bands[b] : b \in 1..Len(daily_fused[j].bands)}
              /\ Len(daily_fused[j].bands) = 10
        /\ \A i, j \in 1..Len(daily_fused) :
              i < j => /\ daily_fused[i].time_start < daily_fused[j].time_start
                       /\ daily_fused[i].date < daily_fused[j].date

\* a run that emitted two images and dropped the placeholder of a third day
C10_Witness ==
    /\ pc = "fuse_done"
    /\ Len(daily_fused) >= 2
    /\ Len(mapped) > Len(daily_fused)

(***************************************************************************)
(* Initial states: one entry point runs, the others stay idle              *)
(***************************************************************************)
InitFuse ==
    /\ pc = "fuse_map"
    /\ s2_collection \in SUBSET S2Times
    /\ s1_collection \in SUBSET S1Times
    /\ start_date \in StartDates
    /\ end_date \in EndDates
    /\ mapped = << >>
    /\ daily_fused = << >>
    /\ DlIdle
    /\ RsIdle
    /\ OrIdle

InitDownload ==
    /\ pc = "dl_loop"
    /\ image \in Images
    /\ overwrite \in BOOLEAN
    /\ temp_tiles \in [Cells -> InitialTiles]
    /\ temp0 = temp_tiles
    /\ dl_i = 0
    /\ attempts = [c \in Cells |-> 0]
    /\ failed = {}
    /\ tiles = {}
    /\ s2_dir = EmptyDir /\ s1_dir = EmptyDir /\ label_dir = EmptyDir
    /\ split_seen = {}
    /\ split_err = NoTile
    /\ image_id = 1
    /\ tile_image = [c \in Cells |-> IF exists(temp_tiles[c]) THEN 1 ELSE NoImage]
    /\ pair_log = NoPairs
    /\ FuseIdle
    /\ RsIdle
    /\ OrIdle

InitResize ==
    /\ pc = "rs_cli_s1"
    /\ args_s1 \in BOOLEAN
    /\ args_label \in BOOLEAN
    /\ ref_dir \in [RefNames -> RefFiles]
    /\ source_dir = EmptyGeoDir /\ output_dir = EmptyGeoDir
    /\ source_kind = "" /\ is_label = FALSE
    /\ rs_i = 0
    /\ rs_log = [f \in RefNames |-> "none"]
    /\ rs_method = [f \in RefNames |-> "none"]
    /\ FuseIdle
    /\ DlIdle
    /\ OrIdle

InitOrchestrator ==
    /\ pc = "or_start"
    /\ dirs \in [S2 : BOOLEAN, S1 : BOOLEAN, labels : BOOLEAN]
    /\ or_reported = FALSE
    /\ or_steps = << >>
    /\ or_completed = FALSE
    /\ or_exit = NoExit
    /\ FuseIdle
    /\ DlIdle
    /\ RsIdle

Init == InitFuse \/ InitDownload \/ InitResize \/ InitOrchestrator

Next ==
    \/ MapDay \/ FilterFused
    \/ DlSkip \/ DlExportOk \/ DlExportFail \/ DlListTiles
    \/ SplitTile \/ DlFinish \/ DlNextImage
    \/ RsCliS1 \/ RsCliLabel \/ RsSkipMissing \/ RsOpenRefRaises
    \/ RsResize \/ RsResizeError \/ RsReturn
    \/ OrMissingInput \/ OrStartSuperres \/ OrSuperresEnds \/ OrResizeEnds

Spec == Init /\ [][Next]_vars

====
